---------------------------- MODULE Spec2Model ----------------------------
(***************************************************************************)
(* Model of the metrics pipeline of Data2MusicTool (src/metrics.py):       *)
(* to_json, brightness, contrast, histogram, amplitude, joint,             *)
(* change_points and the handle bookkeeping of process.  Every function    *)
(* has its own call frame (one variable, a record of the function's locals *)
(* under their source names) and its own specification; the frames of the  *)
(* functions a specification does not run stay Idle.                       *)
(***************************************************************************)
EXTENDS Integers, Sequences, FiniteSets, TLC

VARIABLES tj, br, ct, cp, jn, am, pr, hs

vars == <<tj, br, ct, cp, jn, am, pr, hs>>

Idle == [pc |-> "idle"]

(***************************************************************************)
(* Helpers over sequences.                                                 *)
(***************************************************************************)
RECURSIVE SumSeq(_)
SumSeq(s) == IF s = <<>> THEN 0 ELSE Head(s) + SumSeq(Tail(s))

RECURSIVE SeqsUpTo(_, _)
SeqsUpTo(S, n) ==
    IF n = 0 THEN {<<>>}
    ELSE LET shorter == SeqsUpTo(S, n - 1)
         IN  shorter \cup {Append(s, x) : s \in {t \in shorter : Len(t) = n - 1}, x \in S}

Abs(x) == IF x < 0 THEN -x ELSE x

(***************************************************************************)
(* to_json (src/metrics.py:9-46)                                           *)
(*                                                                         *)
(* time.time() is a float of seconds with microsecond digits; the model    *)
(* keeps time_stamp (= time.time() * 1000, milliseconds with a fraction)   *)
(* as an integer number of microseconds, so that int(time_stamp) is a real *)
(* truncation and "+= 1000" adds 1000 milliseconds.                        *)
(***************************************************************************)
MaxLists == 2
MaxSeqLen == 2
UsPerMs == 1000
Step == 1000

Values == {1, 2}
Labels == <<"a", "b", "c", "d">>
\* time.time() at the call, in microseconds (small epochs: the model checker's
\* integers are 32 bits wide)
Clock == {1700000250, 1700999999}

IntOf(time_stamp) == time_stamp \div UsPerMs

Parameters == [system |-> "track1"]

Event(time_stamp, feature, each) ==
    [timestamp |-> IntOf(time_stamp), feature |-> feature,
     value |-> each, parameters |-> Parameters]

\* line 26: time_stamp += 1000
Advance(time_stamp) == time_stamp + Step * UsPerMs

\* line 37: time_stamp = copy
ContinueStamp(t) == t.time_stamp
ResetStamp(t) == t.copy

TJ_Inputs ==
    { [lists |-> l, features |-> SubSeq(Labels, 1, n), now |-> c] :
        l \in SeqsUpTo(SeqsUpTo(Values, MaxSeqLen), MaxLists),
        n \in 0 .. MaxLists + 1,
        c \in Clock }

TJ_Init ==
    /\ \E inp \in TJ_Inputs :
          tj = [pc |-> "loop", lists |-> inp.lists, features |-> inp.features,
                time_stamp |-> inp.now, copy |-> inp.now,
                i |-> 0, k |-> 0, li2 |-> <<>>, file |-> <<>>]
    /\ br = Idle /\ ct = Idle /\ cp = Idle /\ jn = Idle /\ am = Idle /\ pr = Idle /\ hs = Idle

\* lines 24-36: one iteration of the inner loop; features[i] raises
\* IndexError when there are fewer labels than sequences
TJ_Each ==
    /\ tj.pc = "loop"
    /\ tj.i < Len(tj.lists)
    /\ tj.k < Len(tj.lists[tj.i + 1])
    /\ IF tj.i >= Len(tj.features)
       THEN tj' = [tj EXCEPT !.pc = "IndexError"]
       ELSE tj' = [tj EXCEPT
                     !.li2 = Append(@, Event(tj.time_stamp, tj.features[tj.i + 1],
                                             tj.lists[tj.i + 1][tj.k + 1])),
                     !.time_stamp = Advance(@),
                     !.k = @ + 1]
    /\ UNCHANGED <<br, ct, cp, jn, am, pr, hs>>

\* line 37: the inner loop is exhausted, the next sequence starts
TJ_NextList ==
    /\ tj.pc = "loop"
    /\ tj.i < Len(tj.lists)
    /\ tj.k = Len(tj.lists[tj.i + 1])
    /\ tj' = [tj EXCEPT !.time_stamp = ResetStamp(tj), !.i = @ + 1, !.k = 0]
    /\ UNCHANGED <<br, ct, cp, jn, am, pr, hs>>

\* lines 41-46: every item of li2 is dumped on a line of its own
TJ_Write ==
    /\ tj.pc = "loop"
    /\ tj.i = Len(tj.lists)
    /\ tj' = [tj EXCEPT !.file = tj.li2, !.pc = "done"]
    /\ UNCHANGED <<br, ct, cp, jn, am, pr, hs>>

TJ_Next == TJ_Each \/ TJ_NextList \/ TJ_Write

SpecToJson == TJ_Init /\ [][TJ_Next]_vars

(***************************************************************************)
(* Frame sources (cv2.VideoCapture).  A frame is the flattened array of    *)
(* its pixels, a pixel the triple of its colour components; read() gives   *)
(* (ret, frame) with frame None when nothing could be decoded.             *)
(***************************************************************************)
NPixels == 2
MaxFrames == 4
None == <<>>

Uniform(c) == [p \in 1 .. NPixels |-> <<c, c, c>>]
TwoTone == [p \in 1 .. NPixels |-> IF p = 1 THEN <<255, 0, 0>> ELSE <<0, 0, 200>>]
Frames == {Uniform(0), Uniform(255), TwoTone}

ReadResults == {[ret |-> TRUE, frame |-> f] : f \in Frames}
                  \cup {[ret |-> FALSE, frame |-> None]}

RECURSIVE Flatten(_)
Flatten(frame) == IF frame = <<>> THEN <<>> ELSE Head(frame) \o Flatten(Tail(frame))

\* np.sum(frame, dtype=np.uint32): an unsigned accumulation, which wraps at
\* 2^32 and so stays in 0 .. 2^32 - 1; the frames of the model sum far below
\* 2^32 (a number the model checker's 32-bit integers cannot hold)
SumUint32(frame) == SumSeq(Flatten(frame))

(***************************************************************************)
(* brightness (src/metrics.py:48-67)                                       *)
(***************************************************************************)
BR_Init ==
    /\ \E fc \in 0 .. MaxFrames :
          br = [pc |-> "loop", fc |-> fc, k |-> 0, li |-> <<>>,
                reads |-> <<>>, released |-> FALSE]
    /\ tj = Idle /\ ct = Idle /\ cp = Idle /\ jn = Idle /\ am = Idle /\ pr = Idle /\ hs = Idle

\* lines 59-60: li.append(-1); continue
StopOnNone(b) == [b EXCEPT !.k = b.fc]
SkipNone(b) == [b EXCEPT !.li = Append(@, -1), !.k = @ + 1]

\* lines 57-65: one iteration of the loop over the declared frame count
BR_Read ==
    /\ br.pc = "loop"
    /\ br.k < br.fc
    /\ \E r \in ReadResults :
          LET b == [br EXCEPT !.reads = Append(@, r)]
          IN  IF r.frame = None
              THEN br' = SkipNone(b)
              ELSE br' = [b EXCEPT !.li = Append(@, SumUint32(r.frame)), !.k = @ + 1]
    /\ UNCHANGED <<tj, ct, cp, jn, am, pr, hs>>

\* lines 66-67: video.release(); return li
BR_Return ==
    /\ br.pc = "loop"
    /\ br.k >= br.fc
    /\ br' = [br EXCEPT !.released = TRUE, !.pc = "done"]
    /\ UNCHANGED <<tj, ct, cp, jn, am, pr, hs>>

BR_Next == BR_Read \/ BR_Return

SpecBrightness == BR_Init /\ [][BR_Next]_vars

(***************************************************************************)
(* contrast (src/metrics.py:69-100)                                        *)
(***************************************************************************)
Int16Mod == 65536
Int16Max == 32767

\* frame.astype(np.int16), per colour component
AsInt16(v) == ((v + Int16Max + 1) % Int16Mod) - (Int16Max + 1)
AsTypeInt16(frame) ==
    [p \in 1 .. Len(frame) |-> [c \in 1 .. Len(frame[p]) |-> AsInt16(frame[p][c])]]

\* line 94: np.sum(np.absolute(frame2 - frame), dtype=np.uint32)
SumAbsDiff(frame2, frame) ==
    SumSeq(Flatten([p \in 1 .. Len(frame2) |->
                      [c \in 1 .. Len(frame2[p]) |->
                          Abs(AsInt16(frame2[p][c] - frame[p][c]))]]))

CT_Init ==
    /\ \E fc \in 0 .. MaxFrames :
          ct = [pc |-> "first", fc |-> fc, k |-> 0, li |-> <<>>, frame |-> None,
                reads |-> <<>>, released |-> FALSE]
    /\ tj = Idle /\ br = Idle /\ cp = Idle /\ jn = Idle /\ am = Idle /\ pr = Idle /\ hs = Idle

\* lines 81-82: the first frame is read and converted unconditionally;
\* None has no astype, which raises AttributeError
CT_First ==
    /\ ct.pc = "first"
    /\ \E r \in ReadResults :
          LET c == [ct EXCEPT !.reads = Append(@, r)]
          IN  IF r.frame = None
              THEN ct' = [c EXCEPT !.pc = "AttributeError"]
              ELSE ct' = [c EXCEPT !.frame = AsTypeInt16(r.frame), !.pc = "loop"]
    /\ UNCHANGED <<tj, br, cp, jn, am, pr, hs>>

\* lines 85-87: li.append(-1); continue, which skips frame = frame2
CT_AdvanceOnNone(c) == [c EXCEPT !.li = Append(@, -1), !.frame = None, !.k = @ + 1]
CT_SkipNone(c) == [c EXCEPT !.li = Append(@, -1), !.k = @ + 1]

\* lines 84-98: one iteration of the loop over frameCount - 1 further frames
CT_Read ==
    /\ ct.pc = "loop"
    /\ ct.k < ct.fc - 1
    /\ \E r \in ReadResults :
          LET c == [ct EXCEPT !.reads = Append(@, r)]
          IN  IF r.frame = None
              THEN ct' = CT_SkipNone(c)
              ELSE LET frame2 == AsTypeInt16(r.frame)
                   IN  ct' = [c EXCEPT !.li = Append(@, SumAbsDiff(frame2, ct.frame)),
                                       !.frame = frame2,
                                       !.k = @ + 1]
    /\ UNCHANGED <<tj, br, cp, jn, am, pr, hs>>

\* lines 99-100: video.release(); return li
CT_Return ==
    /\ ct.pc = "loop"
    /\ ct.k >= ct.fc - 1
    /\ ct' = [ct EXCEPT !.released = TRUE, !.pc = "done"]
    /\ UNCHANGED <<tj, br, cp, jn, am, pr, hs>>

CT_Next == CT_First \/ CT_Read \/ CT_Return

SpecContrast == CT_Init /\ [][CT_Next]_vars

(***************************************************************************)
(* change_points (src/metrics.py:188-215)                                  *)
(*                                                                         *)
(* Python indexes data from 0, a TLA+ sequence from 1: data[i] of the      *)
(* source is data[i + 1] here, and cp holds the source's indices.          *)
(***************************************************************************)
MaxLen == 64
shot_length == 30
High == 100

\* max(data), for a non-empty sequence
RECURSIVE MaxFrom(_, _)
MaxFrom(s, i) == IF i = Len(s) THEN s[i]
                 ELSE LET m == MaxFrom(s, i + 1) IN IF s[i] >= m THEN s[i] ELSE m
MaxOf(s) == MaxFrom(s, 1)

\* line 200, 206: data[i] >= cutoff with cutoff = max(data) * 0.3, in tenths
\* (for the values of the model the float product max(data) * 0.3 is the
\* exact 0 or 30.0)
AtLeastCutoff(x, m) == 10 * x >= 3 * m

\* lines 207-209: the marker moves to every index at or above the cutoff
MoveMarker(i, curr_cp) == i

\* lines 205-210: the scan from index i on, with marker curr_cp; m is max(data)
RECURSIVE Scan(_, _, _, _, _)
Scan(data, m, i, curr_cp, acc) ==
    IF i >= Len(data) THEN acc
    ELSE IF AtLeastCutoff(data[i + 1], m)
         THEN Scan(data, m, i + 1, MoveMarker(i, curr_cp),
                   IF i - curr_cp > shot_length THEN Append(acc, curr_cp) ELSE acc)
         ELSE Scan(data, m, i + 1, curr_cp, acc)

\* lines 200-215; cp[0] of an empty list raises IndexError
change_points(data) ==
    LET scanned == Scan(data, MaxOf(data), 1, 0, <<>>)
    IN  IF scanned = <<>> THEN [pc |-> "IndexError", cp |-> <<>>]
        ELSE LET first == IF scanned[1] # 0 THEN <<0>> \o scanned ELSE scanned
                 last == IF first[Len(first)] # Len(data) - 1
                         THEN Append(first, Len(data) - 1) ELSE first
             IN  [pc |-> "done", cp |-> last]

\* the input sequences: High at up to two indices (p = -1: no spike), 0 elsewhere
Spiked(n, p, q) == [i \in 1 .. n |-> IF i - 1 \in {p, q} THEN High ELSE 0]

CP_Init ==
    /\ \E n \in 1 .. MaxLen : \E p \in -1 .. n - 1 : \E q \in p .. n - 1 :
          cp = [pc |-> "call", data |-> Spiked(n, p, q), cp |-> <<>>]
    /\ tj = Idle /\ br = Idle /\ ct = Idle /\ jn = Idle /\ am = Idle /\ pr = Idle /\ hs = Idle

CP_Call ==
    /\ cp.pc = "call"
    /\ LET r == change_points(cp.data)
       IN  cp' = [cp EXCEPT !.pc = r.pc, !.cp = r.cp]
    /\ UNCHANGED <<tj, br, ct, jn, am, pr, hs>>

CP_Next == CP_Call

SpecChangePoints == CP_Init /\ [][CP_Next]_vars

(***************************************************************************)
(* joint (src/metrics.py:170-186)                                          *)
(*                                                                         *)
(* A float64 is modelled as an exact fraction n/d in lowest terms, or as   *)
(* one of the IEEE values nan, inf, -inf that a division by zero gives.    *)
(***************************************************************************)
MaxInputs == 2
MaxInputLen == 2
Metric == {0, 1, 2}

RECURSIVE GCD(_, _)
GCD(a, b) == IF b = 0 THEN a ELSE GCD(b, a % b)

Num(n, d) ==
    LET g == GCD(Abs(n), Abs(d))
        sg == IF d < 0 THEN -1 ELSE 1
    IN  [k |-> "num", n |-> sg * (n \div g), d |-> sg * (d \div g)]
NaN == [k |-> "nan", n |-> 0, d |-> 0]
Inf == [k |-> "inf", n |-> 1, d |-> 0]
NegInf == [k |-> "inf", n |-> -1, d |-> 0]

\* x / m in float64; a zero divisor gives nan or an infinity and a warning
FloatDiv(x, m) ==
    IF m # 0 THEN Num(x, m)
    ELSE IF x = 0 THEN NaN ELSE IF x > 0 THEN Inf ELSE NegInf

FloatAdd(a, b) ==
    IF a.k = "nan" \/ b.k = "nan" THEN NaN
    ELSE IF a.k = "inf" /\ b.k = "inf" THEN (IF a.n = b.n THEN a ELSE NaN)
    ELSE IF a.k = "inf" THEN a
    ELSE IF b.k = "inf" THEN b
    ELSE Num(a.n * b.d + b.n * a.d, a.d * b.d)

\* line 178: np.zeros(n)
Zeros(n) == [i \in 1 .. n |-> Num(0, 1)]

\* line 183: temp.resize(result.shape) pads temp with zeros
Resize(temp, n) == [i \in 1 .. n |-> IF i <= Len(temp) THEN temp[i] ELSE 0]

\* line 184: temp / np.max(temp)
Rescale(temp) == [i \in 1 .. Len(temp) |-> FloatDiv(temp[i], MaxOf(temp))]

\* line 186: return result
Average(result, data) ==
    [i \in 1 .. Len(result) |->
        IF result[i].k = "num" THEN Num(result[i].n, result[i].d * Len(data))
        ELSE result[i]]
Return(result, data) == result

\* lines 180-184: the loop over data from its j-th sequence on.  np.max of
\* an empty array raises ValueError, and so does += of an array longer than
\* result (only a one-element array broadcasts)
RECURSIVE Accumulate(_, _, _)
Accumulate(data, j, result) ==
    IF j > Len(data) THEN [pc |-> "done", result |-> Return(result, data)]
    ELSE LET d == data[j]
             base == Len(data[1])
             temp == IF Len(d) < base THEN Resize(d, base) ELSE d
         IN  IF Len(temp) = 0 THEN [pc |-> "ValueError", result |-> <<>>]
             ELSE IF Len(temp) # Len(result) /\ Len(temp) # 1
                  THEN [pc |-> "ValueError", result |-> <<>>]
             ELSE LET scaled == Rescale(temp)
                  IN  Accumulate(data, j + 1,
                        [i \in 1 .. Len(result) |->
                            FloatAdd(result[i],
                                     IF Len(scaled) = 1 THEN scaled[1] ELSE scaled[i])])

joint(data) == Accumulate(data, 1, Zeros(Len(data[1])))

JN_Init ==
    /\ \E data \in SeqsUpTo(SeqsUpTo(Metric, MaxInputLen), MaxInputs) \ {<<>>} :
          jn = [pc |-> "call", data |-> data, result |-> <<>>]
    /\ tj = Idle /\ br = Idle /\ ct = Idle /\ cp = Idle /\ am = Idle /\ pr = Idle /\ hs = Idle

JN_Call ==
    /\ jn.pc = "call"
    /\ LET r == joint(jn.data)
       IN  jn' = [jn EXCEPT !.pc = r.pc, !.result = r.result]
    /\ UNCHANGED <<tj, br, ct, cp, am, pr, hs>>

JN_Next == JN_Call

SpecJoint == JN_Init /\ [][JN_Next]_vars

(***************************************************************************)
(* histogram (src/metrics.py:102-139)                                      *)
(*                                                                         *)
(* The stream is fixed when the video is opened: video[j] is what the j-th *)
(* read() gives, a frame or None, for each of the frameCount declared      *)
(* frames; pos counts the reads made.  counts and tmp map each of the      *)
(* BINLEN^3 bin indices to the number of pixels in that bin.               *)
(***************************************************************************)
BINLEN == 8
Levels == 256

Bins == 0 .. BINLEN * BINLEN * BINLEN - 1

\* line 114: np.zeros(BINLEN ** 3)
ZeroCounts == [b \in Bins |-> 0]

\* lines 126, 134: the bin index of one pixel, R*8*8 + G*8 + B of the
\* components divided by 256 // BINLEN
BinOf(pixel) ==
    LET q(v) == v \div (Levels \div BINLEN)
    IN  q(pixel[1]) * BINLEN * BINLEN + q(pixel[2]) * BINLEN + q(pixel[3])

\* line 134: np.bincount(..., minlength=BINLEN ** 3)
BinCount(frame) ==
    [b \in Bins |-> Cardinality({p \in 1 .. Len(frame) : BinOf(frame[p]) = b})]

\* the sum of f over the bins lo .. hi, by halves
RECURSIVE SumBins(_, _, _)
SumBins(f, lo, hi) ==
    IF lo > hi THEN 0
    ELSE IF lo = hi THEN f[lo]
    ELSE LET mid == (lo + hi) \div 2
         IN  SumBins(f, lo, mid) + SumBins(f, mid + 1, hi)

\* line 136: np.sum(np.absolute(tmp - counts))
BinDistance(tmp, counts) ==
    SumBins([b \in Bins |-> Abs(tmp[b] - counts[b])], 0, BINLEN * BINLEN * BINLEN - 1)

\* lines 123-125: li.append(-1); continue
HS_ResetOnNone(h) == [h EXCEPT !.li = Append(@, -1), !.counts = ZeroCounts, !.k = @ + 1]
HS_SkipNone(h) == [h EXCEPT !.li = Append(@, -1), !.k = @ + 1]

HS_Init ==
    /\ \E fc \in 0 .. MaxFrames : \E video \in [1 .. fc -> ReadResults] :
          hs = [pc |-> "loop", fc |-> fc, video |-> video, pos |-> 0, k |-> 0,
                li |-> <<>>, counts |-> ZeroCounts, released |-> FALSE]
    /\ tj = Idle /\ br = Idle /\ ct = Idle /\ cp = Idle /\ jn = Idle /\ am = Idle /\ pr = Idle

\* lines 117-137: one iteration of the loop over frameCount - 1 frames
HS_Read ==
    /\ hs.pc = "loop"
    /\ hs.k < hs.fc - 1
    /\ LET r == hs.video[hs.pos + 1]
           h == [hs EXCEPT !.pos = @ + 1]
       IN  IF r.frame = None
           THEN hs' = HS_SkipNone(h)
           ELSE LET tmp == BinCount(r.frame)
                IN  hs' = [h EXCEPT !.li = Append(@, BinDistance(tmp, hs.counts)),
                                    !.counts = tmp,
                                    !.k = @ + 1]
    /\ UNCHANGED <<tj, br, ct, cp, jn, am, pr>>

\* lines 138-139: video.release(); return li
HS_Return ==
    /\ hs.pc = "loop"
    /\ hs.k >= hs.fc - 1
    /\ hs' = [hs EXCEPT !.released = TRUE, !.pc = "done"]
    /\ UNCHANGED <<tj, br, ct, cp, jn, am, pr>>

HS_Next == HS_Read \/ HS_Return

SpecHistogram == HS_Init /\ [][HS_Next]_vars

(***************************************************************************)
(* amplitude (src/metrics.py:141-168)                                      *)
(*                                                                         *)
(* The wave file holds `samples` audio frames of cn channels, every sample *)
(* the same raw value c (0..255 for 1-byte audio, signed for 2-byte        *)
(* audio).  The values of li are kept in thousandths, as round(_, 3)       *)
(* leaves them.                                                            *)
(***************************************************************************)
MaxSamples == 4
Uint16Mod == 65536
Centre == 128
Milli == 1000

Raw8 == {0, 127, 128, 200, 255}
Raw16 == {-32768, -5, 0, 7}

\* line 165: tmp.astype(np.uint16) - 128, an unsigned 16-bit subtraction
CentreUint16(v) == (v - Centre) % Uint16Mod

\* lines 161-166: the absolute values of the samples of one chunk
AbsSamples(chunk, size) ==
    [i \in 1 .. Len(chunk) |->
        IF size = 1 THEN Abs(CentreUint16(chunk[i])) ELSE Abs(chunk[i])]

\* line 166: round(np.average(...), 3); the average of no samples is nan
RoundedAverage(values) ==
    IF Len(values) = 0 THEN [nan |-> TRUE, milli |-> 0]
    ELSE [nan |-> FALSE,
          milli |-> (2 * Milli * SumSeq(values) + Len(values)) \div (2 * Len(values))]

AM_Init ==
    /\ \E frames \in 0 .. MaxFrames, samples \in 0 .. MaxSamples, cn \in {1, 2},
          size \in {1, 2} :
          \E c \in (IF size = 1 THEN Raw8 ELSE Raw16) :
             am = [pc |-> "open", frames |-> frames, samples |-> samples, cn |-> cn,
                   size |-> size, c |-> c, spf |-> 0, k |-> 0, li |-> <<>>,
                   w |-> "none"]
    /\ tj = Idle /\ br = Idle /\ ct = Idle /\ cp = Idle /\ jn = Idle /\ pr = Idle /\ hs = Idle

\* lines 150-157: the wave file is opened; samples // frames raises
\* ZeroDivisionError for a video of no frames
AM_Open ==
    /\ am.pc = "open"
    /\ IF am.frames = 0
       THEN am' = [am EXCEPT !.w = "open", !.pc = "ZeroDivisionError"]
       ELSE am' = [am EXCEPT !.w = "open", !.spf = am.samples \div am.frames,
                             !.pc = "loop"]
    /\ UNCHANGED <<tj, br, ct, cp, jn, pr, hs>>

\* lines 160-166: one chunk of spf audio frames, cn samples each
AM_Chunk ==
    /\ am.pc = "loop"
    /\ am.k < am.frames
    /\ LET chunk == [i \in 1 .. am.spf * am.cn |-> am.c]
       IN  am' = [am EXCEPT !.li = Append(@, RoundedAverage(AbsSamples(chunk, am.size))),
                            !.k = @ + 1]
    /\ UNCHANGED <<tj, br, ct, cp, jn, pr, hs>>

\* lines 167-168: w.close(); return li
AM_Return ==
    /\ am.pc = "loop"
    /\ am.k >= am.frames
    /\ am' = [am EXCEPT !.w = "closed", !.pc = "done"]
    /\ UNCHANGED <<tj, br, ct, cp, jn, pr, hs>>

AM_Next == AM_Open \/ AM_Chunk \/ AM_Return

SpecAmplitude == AM_Init /\ [][AM_Next]_vars

(***************************************************************************)
(* process (src/metrics.py:294-333): the source handles it opens and what  *)
(* becomes of them.  A handle is named after the line that opens it.  An   *)
(* extractor that raises leaves through no release: none of them has a     *)
(* try/finally or a with block.                                            *)
(***************************************************************************)
DefaultFps == 25
FpsValues == {0, 25, 30}

\* video.get(...) of a released capture is 0
Get(p, handle, value) == IF handle \in p.open THEN value ELSE 0

PR_Init ==
    /\ \E full \in BOOLEAN, fc \in 0 .. MaxFrames, fps \in FpsValues :
          pr = [pc |-> "open", full |-> full, fc |-> fc, fps |-> fps,
                open |-> {}, wave |-> "none", result |-> -1]
    /\ tj = Idle /\ br = Idle /\ ct = Idle /\ cp = Idle /\ jn = Idle /\ am = Idle /\ hs = Idle

\* line 305: video = VideoCapture(source)
PR_Open ==
    /\ pr.pc = "open"
    /\ pr' = [pr EXCEPT !.open = @ \cup {"video305"},
                        !.pc = IF pr.full THEN "histogram" ELSE "notfull"]
    /\ UNCHANGED <<tj, br, ct, cp, jn, am, hs>>

\* lines 306-308: the early return; frame count / 0.0 raises ZeroDivisionError
PR_NotFull ==
    /\ pr.pc = "notfull"
    /\ IF pr.fps = 0
       THEN pr' = [pr EXCEPT !.pc = "raised"]
       ELSE pr' = [pr EXCEPT !.result = pr.fc \div pr.fps, !.pc = "returned"]
    /\ UNCHANGED <<tj, br, ct, cp, jn, am, hs>>

\* line 315: histogram(video) releases its video at line 138, unless an
\* error mid-scan (a frame that is no rows x columns x 3 array) ends it first
PR_Histogram ==
    /\ pr.pc = "histogram"
    /\ \E raises \in BOOLEAN :
          IF raises THEN pr' = [pr EXCEPT !.pc = "raised"]
          ELSE pr' = [pr EXCEPT !.open = @ \ {"video305"}, !.pc = "amplitude"]
    /\ UNCHANGED <<tj, br, ct, cp, jn, am, hs>>

\* lines 318-319: amplitude(video, ...) opens the wave file (which may fail),
\* raises ZeroDivisionError for a video of no frames, closes the wave file at
\* line 167 and never releases its video
PR_Amplitude ==
    /\ pr.pc = "amplitude"
    /\ \E opens \in BOOLEAN :
          LET p == [pr EXCEPT !.open = @ \cup {"video318"}]
          IN  IF ~opens THEN pr' = [p EXCEPT !.pc = "raised"]
              ELSE IF Get(p, "video318", p.fc) = 0
                   THEN pr' = [p EXCEPT !.wave = "open", !.pc = "raised"]
              ELSE pr' = [p EXCEPT !.wave = "closed", !.pc = "brightness"]
    /\ UNCHANGED <<tj, br, ct, cp, jn, am, hs>>

\* lines 320-321: brightness(video) releases its video at line 66
PR_Brightness ==
    /\ pr.pc = "brightness"
    /\ \E raises \in BOOLEAN :
          LET p == [pr EXCEPT !.open = @ \cup {"video320"}]
          IN  IF raises THEN pr' = [p EXCEPT !.pc = "raised"]
              ELSE pr' = [p EXCEPT !.open = @ \ {"video320"}, !.pc = "contrast"]
    /\ UNCHANGED <<tj, br, ct, cp, jn, am, hs>>

\* lines 322-323: contrast(video) releases its video at line 99, unless the
\* first read gave None and astype raised
PR_Contrast ==
    /\ pr.pc = "contrast"
    /\ \E raises \in BOOLEAN :
          LET p == [pr EXCEPT !.open = @ \cup {"video322"}]
          IN  IF raises THEN pr' = [p EXCEPT !.pc = "raised"]
              ELSE pr' = [p EXCEPT !.open = @ \ {"video322"}, !.pc = "finish"]
    /\ UNCHANGED <<tj, br, ct, cp, jn, am, hs>>

\* lines 324-333: joint, to_json and the duration, read from the video that
\* contrast has released
PR_Finish ==
    /\ pr.pc = "finish"
    /\ LET fps == Get(pr, "video322", pr.fps)
       IN  pr' = [pr EXCEPT
                    !.result = Get(pr, "video322", pr.fc)
                                  \div (IF fps = 0 THEN DefaultFps ELSE fps),
                    !.pc = "returned"]
    /\ UNCHANGED <<tj, br, ct, cp, jn, am, hs>>

PR_Next ==
    \/ PR_Open \/ PR_NotFull \/ PR_Histogram \/ PR_Amplitude
    \/ PR_Brightness \/ PR_Contrast \/ PR_Finish

SpecProcess == PR_Init /\ [][PR_Next]_vars

(***************************************************************************)
(* C1: to_json writes exactly sum(len(lists[s])) records, sequence-major   *)
(* then index-minor; the record of element i of sequence s carries         *)
(* features[s], lists[s][i], {"system": "track1"} and base + 1000*i for    *)
(* one base per invocation; so the i-th elements of all sequences share a  *)
(* timestamp and the timestamps of one sequence are pairwise distinct.     *)
(***************************************************************************)
RECURSIVE Offset(_, _)
Offset(lists, s) == IF s = 0 THEN 0 ELSE Offset(lists, s - 1) + Len(lists[s])

C1_Records ==
    (tj.pc = "done" /\ Len(tj.features) >= Len(tj.lists)) =>
        LET base == IntOf(tj.copy)
            n == Len(tj.lists)
            at(s, i) == tj.file[Offset(tj.lists, s - 1) + i]
        IN  /\ Len(tj.file) = Offset(tj.lists, n)
            /\ \A s \in 1 .. n : \A i \in 1 .. Len(tj.lists[s]) :
                  /\ at(s, i).feature = tj.features[s]
                  /\ at(s, i).value = tj.lists[s][i]
                  /\ at(s, i).parameters = [system |-> "track1"]
                  /\ at(s, i).timestamp = base + 1000 * (i - 1)
            /\ \A s, t \in 1 .. n : \A i \in 1 .. Len(tj.lists[s]) :
                  i <= Len(tj.lists[t]) => at(s, i).timestamp = at(t, i).timestamp
            /\ \A s \in 1 .. n : \A i, j \in 1 .. Len(tj.lists[s]) :
                  i # j => at(s, i).timestamp # at(s, j).timestamp

\* two sequences of two elements each have been written
C1_Witness ==
    /\ tj.pc = "done"
    /\ tj.lists = <<<<1, 2>>, <<2, 1>>>>
    /\ tj.features = <<"a", "b">>
    /\ Len(tj.file) = 4
    /\ tj.file[3].timestamp = tj.file[1].timestamp
    /\ tj.file[2].timestamp = tj.file[1].timestamp + 1000

(***************************************************************************)
(* C2: brightness returns a list of length frameCount; position k is -1    *)
(* exactly when the k-th read failed to decode and a non-negative sum      *)
(* otherwise; a failed read never stops the scan early.                    *)
(***************************************************************************)
C2_Brightness ==
    /\ br.pc = "done" =>
          /\ Len(br.li) = br.fc
          /\ Len(br.reads) = br.fc
          /\ \A k \in 1 .. br.fc :
                /\ br.li[k] = -1 <=> br.reads[k].frame = None
                /\ br.reads[k].frame # None => br.li[k] >= 0
    /\ (br.pc = "loop" /\ Len(br.reads) < br.fc) => ENABLED BR_Read

\* a scan whose first read failed went on and summed a later frame
C2_Witness ==
    /\ br.pc = "done"
    /\ br.fc = 3
    /\ br.reads[1].frame = None
    /\ br.reads[3].frame # None
    /\ br.li[1] = -1
    /\ br.li[3] > 0

(***************************************************************************)
(* C3: for every frame source, also one with frameCount = 0 and one whose  *)
(* first frame fails to decode, contrast returns a list of length          *)
(* max(frameCount - 1, 0).                                                 *)
(***************************************************************************)
C3_ContrastLength ==
    ct.pc \notin {"idle", "first", "loop"} =>
        /\ ct.pc = "done"
        /\ Len(ct.li) = (IF ct.fc - 1 > 0 THEN ct.fc - 1 ELSE 0)

(***************************************************************************)
(* C4: for every non-empty sequence, change_points returns a strictly      *)
(* ascending list of indices whose first element is 0 and whose last       *)
(* element is len(data) - 1.                                               *)
(***************************************************************************)
C4_ChangePointSet ==
    cp.pc \notin {"idle", "call"} =>
        /\ cp.pc = "done"
        /\ cp.cp # <<>>
        /\ cp.cp[1] = 0
        /\ cp.cp[Len(cp.cp)] = Len(cp.data) - 1
        /\ \A a, b \in 1 .. Len(cp.cp) : a < b => cp.cp[a] < cp.cp[b]

(***************************************************************************)
(* C5: change_points follows the specified scan, in which the marker is    *)
(* recorded and moved to i only when both data[i] >= 0.3 * max(data) and   *)
(* i - lastMarker > 30 hold and is left unchanged otherwise; its result    *)
(* equals that reference scan's result, and [0]*29 + [100] + [0]*29 +      *)
(* [100] yields [0, 59].  Stated for the calls that return a result.       *)
(***************************************************************************)
RECURSIVE RefScan(_, _, _, _, _)
RefScan(data, m, i, lastMarker, acc) ==
    IF i >= Len(data) THEN acc
    ELSE IF 10 * data[i + 1] >= 3 * m /\ i - lastMarker > 30
         THEN RefScan(data, m, i + 1, i, Append(acc, lastMarker))
         ELSE RefScan(data, m, i + 1, lastMarker, acc)

RefChangePoints(data) ==
    LET scanned == RefScan(data, MaxOf(data), 1, 0, <<>>)
        first == IF scanned = <<>> \/ scanned[1] # 0 THEN <<0>> \o scanned ELSE scanned
    IN  IF first[Len(first)] # Len(data) - 1 THEN Append(first, Len(data) - 1) ELSE first

C5_Example == [i \in 1 .. 60 |-> IF i \in {30, 60} THEN 100 ELSE 0]

C5_ReferenceScan ==
    /\ cp.pc = "done" => cp.cp = RefChangePoints(cp.data)
    /\ (cp.pc \notin {"idle", "call"} /\ cp.data = C5_Example) =>
          (cp.pc = "done" /\ cp.cp = <<0, 59>>)

(***************************************************************************)
(* C6: for every non-empty list of sequences of possibly unequal lengths   *)
(* (later sequences shorter or longer than the first), joint returns a     *)
(* sequence as long as the first input, shorter inputs counting as         *)
(* zero-padded.  Stated for a non-empty first input.                       *)
(***************************************************************************)
RECURSIVE C6_PaddedSum(_, _, _)
C6_PaddedSum(data, j, k) ==
    IF j = 0 THEN Num(0, 1)
    ELSE LET padded == [i \in 1 .. Len(data[1]) |->
                           IF i <= Len(data[j]) THEN data[j][i] ELSE 0]
         IN  FloatAdd(C6_PaddedSum(data, j - 1, k), FloatDiv(padded[k], MaxOf(padded)))

C6_JointLength ==
    (jn.pc \notin {"idle", "call"} /\ jn.data[1] # <<>>) =>
        /\ jn.pc = "done"
        /\ Len(jn.result) = Len(jn.data[1])
        /\ \A k \in 1 .. Len(jn.data[1]) :
              jn.result[k] = C6_PaddedSum(jn.data, Len(jn.data), k)

C8_ZeroMaxAborts ==
    (/\ jn.pc \notin {"idle", "call"}
     /\ \E j \in 1 .. Len(jn.data) : jn.data[j] # <<>> /\ MaxOf(jn.data[j]) = 0) =>
        jn.pc # "done"

(***************************************************************************)
(* C9: for 1-byte audio, amplitude maps each sample v in 0..255 to         *)
(* |v - 128| without wraparound: a buffer whose samples all equal c, with  *)
(* at least one sample per video frame, yields the constant sequence       *)
(* |c - 128|, for every c in 0..255, also c < 128.                         *)
(***************************************************************************)
C9_Amplitude8Bit ==
    (am.pc = "done" /\ am.size = 1 /\ am.spf >= 1) =>
        /\ Len(am.li) = am.frames
        /\ \A k \in 1 .. Len(am.li) :
              am.li[k] = [nan |-> FALSE, milli |-> 1000 * Abs(am.c - 128)]

(***************************************************************************)
(* C10: every video or audio handle opened for an extraction is released   *)
(* on every exit path of that extraction: after an error raised mid-scan   *)
(* and after the early return of process when full is False, too.  Stated  *)
(* of the exits of process: when it has returned or raised, no             *)
(* handle opened since the call is still open.                             *)
(***************************************************************************)
C10_HandlesReleased ==
    pr.pc \in {"returned", "raised"} => (pr.open = {} /\ pr.wave # "open")

(***************************************************************************)
(* C11: histogram returns frameCount - 1 values and gives no value to the  *)
(* first frame: for a stream whose frames all decode, output k is the sum  *)
(* over all 512 bins of the absolute difference between the occupancy      *)
(* counts of frame k+1 and those of frame k, so every frame of the stream  *)
(* is read and no output compares a frame with the initial all-zero        *)
(* histogram.  Stated for streams of at least two frames.                  *)
(***************************************************************************)
C11_HistogramPairs ==
    (/\ hs.pc = "done"
     /\ hs.fc >= 2
     /\ \A j \in 1 .. hs.fc : hs.video[j].frame # None) =>
        /\ Len(hs.li) = hs.fc - 1
        /\ hs.pos = hs.fc
        /\ \A k \in 1 .. hs.fc - 1 :
              hs.li[k] = BinDistance(BinCount(hs.video[k + 1].frame),
                                     BinCount(hs.video[k].frame))

(***************************************************************************)
(* C12: in contrast, when a read fails after the first frame was read, -1  *)
(* is appended and the retained previous frame is left unchanged, so the   *)
(* next successfully read frame is compared with the last successfully     *)
(* read frame; the previous frame is replaced only after a successful      *)
(* read.                                                                   *)
(***************************************************************************)
\* the last frame decoded among the first j reads (the first read decoded)
RECURSIVE C12_LastDecoded(_, _)
C12_LastDecoded(reads, j) ==
    IF reads[j].frame # None THEN reads[j].frame ELSE C12_LastDecoded(reads, j - 1)

C12_ContrastHoldsFrame ==
    ct.pc \in {"loop", "done"} =>
        /\ Len(ct.reads) = Len(ct.li) + 1
        /\ ct.frame = AsTypeInt16(C12_LastDecoded(ct.reads, Len(ct.reads)))
        /\ \A k \in 1 .. Len(ct.li) :
              IF ct.reads[k + 1].frame = None
              THEN ct.li[k] = -1
              ELSE ct.li[k] = SumAbsDiff(AsTypeInt16(ct.reads[k + 1].frame),
                                         AsTypeInt16(C12_LastDecoded(ct.reads, k)))

\* a black frame, a failed read, then a white frame compared with the black one
C12_Witness ==
    /\ ct.pc = "done"
    /\ Len(ct.reads) = 3
    /\ ct.reads[1].frame = Uniform(0)
    /\ ct.reads[2].frame = None
    /\ ct.reads[3].frame = Uniform(255)
    /\ ct.li = <<-1, 255 * 3 * NPixels>>
    /\ ct.frame = Uniform(255)

(***************************************************************************)
(* C13: in histogram, a failed read appends -1 and leaves the retained     *)
(* occupancy counts unchanged; after every successful read the retained    *)
(* counts are that frame's occupancy counts, whose total over all 512 bins *)
(* is width*height; so each non-sentinel output is the distance to the     *)
(* counts of the last successfully decoded frame, or to all zeros if there *)
(* is none yet.                                                            *)
(***************************************************************************)
\* the last frame decoded among the first j reads, <<>> (no pixels) if none
RECURSIVE C13_LastFrame(_, _)
C13_LastFrame(video, j) ==
    IF j = 0 THEN <<>>
    ELSE IF video[j].frame # None THEN video[j].frame
    ELSE C13_LastFrame(video, j - 1)

\* the number of pixels of frame in bin b, and the bins a frame occupies
C13_Occupancy(frame, b) == Cardinality({p \in 1 .. Len(frame) : BinOf(frame[p]) = b})
C13_Occupied(frame) == {BinOf(frame[p]) : p \in 1 .. Len(frame)}

RECURSIVE C13_SumOver(_, _, _)
C13_SumOver(S, frame, prev) ==
    IF S = {} THEN 0
    ELSE LET b == CHOOSE x \in S : TRUE
         IN  Abs(C13_Occupancy(frame, b) - C13_Occupancy(prev, b))
                + C13_SumOver(S \ {b}, frame, prev)

\* the distance between the occupancy counts of two frames: the bins that
\* neither frame occupies add nothing
C13_Distance(frame, prev) ==
    C13_SumOver(C13_Occupied(frame) \cup C13_Occupied(prev), frame, prev)

C13_HistogramCounts ==
    hs.pc \in {"loop", "done"} =>
        /\ Len(hs.li) = hs.pos
        /\ LET last == C13_LastFrame(hs.video, hs.pos)
           IN  \A b \in Bins : hs.counts[b] = C13_Occupancy(last, b)
        /\ (\E j \in 1 .. hs.pos : hs.video[j].frame # None) =>
              SumBins(hs.counts, 0, 511) = NPixels
        /\ \A k \in 1 .. Len(hs.li) :
              IF hs.video[k].frame = None
              THEN hs.li[k] = -1
              ELSE /\ hs.li[k] >= 0
                   /\ hs.li[k] = C13_Distance(hs.video[k].frame,
                                              C13_LastFrame(hs.video, k - 1))

\* a decoded frame, a failed read, then a frame compared with the first one
C13_Witness ==
    /\ hs.pc = "done"
    /\ hs.pos = 3
    /\ hs.video[1].frame = Uniform(0)
    /\ hs.video[2].frame = None
    /\ hs.video[3].frame = Uniform(255)
    /\ hs.li = <<NPixels, -1, 2 * NPixels>>
    /\ hs.counts = BinCount(Uniform(255))

=============================================================================
